---- MODULE Spec2Model ----
(***************************************************************************)
(* Serie A tournament: the pairing engine (src/engine.py) and the round     *)
(* controls of the application (src/app.py) over its store (src/db.py).    *)
(*                                                                         *)
(* A player is its id; the gender tag of a player is gender[id].  A match  *)
(* is [court, team1, team2] with each team a 2-tuple of ids.  A Python     *)
(* dict is a function on the set of its keys, read with Get (dict.get).    *)
(* random.shuffle is a nondeterministic choice among all orders.           *)
(* An optional value (None or a value) is a sequence of length 0 or 1.     *)
(***************************************************************************)
EXTENDS Integers, Sequences, FiniteSets, TLC

\* ------------------------------------------------------------------ bounds
MaxPlayers == 5
MaxCourts == 2
MaxAttempts == 2
MaxGames == 1
MaxWins == 1
MaxFaced == 11
MaxHistory == 1
MaxRounds == 2

\* ------------------------------------------------- constants of the scorer
PartnerPenalty == 100
OpponentPenalty == 10
MixedBonus == 15
BalancePenalty == 2

\* ------------------------------------------------------------------- state
VARIABLES
    players,            \* generate_round argument: list of player ids
    gender,             \* p["gender"] of every player id
    num_courts,
    past_partnerships,  \* set of canonical pairs <<lo, hi>>
    past_opponents,     \* dict canonical pair -> count
    games_played,       \* dict id -> count
    wins,               \* dict id -> count
    num_attempts,
    skip_selection,
    pc,                 \* position in generate_round
    max_matches,
    playing,
    attempt,            \* iterations of the candidate loop already run
    best_matches,       \* None or a match list
    best_score,         \* None (float("-inf")) or an integer
    result,             \* None until generate_round returns
    scores_seen,        \* history: score of every valid candidate, in order
    best_at,            \* history: index in scores_seen of the kept candidate
    clean_seen,         \* history: some valid candidate had no repeated team
    playing_obj,        \* which list object `playing` is: the caller's or a new one
    at_call,            \* history: the arguments as they were when the call began
    fallback_used,      \* line 67 ran
    probe,              \* direct call of one helper: arguments and result
    active,             \* store: ids of the players with active = 1
    rounds,             \* store: the rounds in order of id, each a list of matches
    session_courts,     \* st.session_state.num_courts
    redrawn,            \* history: what the last redraw replaced and what it read
    drawn               \* history: the store before the last draw, and whether
                        \* that draw has been undone since

engineVars == <<players, gender, num_courts, past_partnerships, past_opponents,
                games_played, wins, num_attempts, skip_selection, pc,
                max_matches, playing, attempt, best_matches, best_score,
                result, scores_seen, best_at, clean_seen, playing_obj, at_call,
                fallback_used>>
appVars == <<active, rounds, session_courts, redrawn, drawn>>
vars == <<engineVars, probe, appVars>>

\* ----------------------------------------------------------------- helpers
None == <<>>
Some(x) == <<x>>

Min(a, b) == IF a <= b THEN a ELSE b
Max(a, b) == IF a >= b THEN a ELSE b
Abs(x) == IF x < 0 THEN 0 - x ELSE x

Range(s) == {s[k] : k \in 1..Len(s)}

Get(d, k, default) == IF k \in DOMAIN d THEN d[k] ELSE default

EmptyDict == [k \in {} |-> 0]

PairKey(a, b) == <<Min(a, b), Max(a, b)>>

\* s without its element at position k (list.pop(k) leaves this behind)
RemoveAt(s, k) == SubSeq(s, 1, k - 1) \o SubSeq(s, k + 1, Len(s))

\* every list that holds each element of S exactly once
RECURSIVE Orderings(_)
Orderings(S) ==
    IF S = {} THEN {<<>>}
    ELSE UNION {{<<x>> \o p : p \in Orderings(S \ {x})} : x \in S}

\* random.shuffle(s): every order of the elements of s (all distinct here)
Shuffle(s) == Orderings(Range(s))

\* list.sort(key=...) is stable: equal keys keep their order
RECURSIVE StableSort(_, _)
StableSort(s, key) ==
    IF s = <<>> THEN <<>>
    ELSE LET rest == StableSort(SubSeq(s, 1, Len(s) - 1), key)
             x == s[Len(s)]
             \* x goes after every element whose key is <= key[x]
             after == {k \in 1..Len(rest) : key[rest[k]] <= key[x]}
             pos == IF after = {} THEN 0
                    ELSE CHOOSE k \in after : \A j \in after : j <= k
         IN SubSeq(rest, 1, pos) \o <<x>> \o SubSeq(rest, pos + 1, Len(rest))

\* ----------------------------------------------------------- list objects
\* A Python list is an object: shuffle, sort and pop change it in place, for
\* every name bound to it.  A list is the caller's own (the `players`
\* argument) or one built during the call.
CallerList == "caller"
LocalList == "local"

\* ---- variant: the list itself handed on where the code copies it
ListAlias(obj) == obj

\* list(x), lines 47, 80, 83, 98 and 241: a new list with the items of x
ListCopy(obj) == LocalList

\* the values the caller's list can hold after list object obj was reordered
\* in place, `outcomes` being the orders the caller's list would get
InPlace(obj, callers, outcomes) == IF obj = CallerList THEN outcomes ELSE {callers}

\* ---- variants of _select_players with a plausible slip
\* the sort of line 85 left out
SelectPlayersUnsorted(ps, needed, games) ==
    IF Len(ps) <= needed THEN {ps}
    ELSE {SubSeq(sh, 1, needed) : sh \in Shuffle(ps)}

\* line 79 with < for <=
SelectPlayersStrict(ps, needed, games) ==
    IF Len(ps) < needed THEN {ps}
    ELSE LET key == [p \in Range(ps) |-> Get(games, p, 0)]
         IN {SubSeq(StableSort(sh, key), 1, needed) : sh \in Shuffle(ps)}

\* ------------------------------------------------------- _select_players
SelectPlayers(ps, needed, games) ==
    IF Len(ps) <= needed THEN {ps}
    ELSE LET key == [p \in Range(ps) |-> Get(games, p, 0)]
         IN {SubSeq(StableSort(sh, key), 1, needed) : sh \in Shuffle(ps)}

\* ------------------------------------------------------------ _form_pairs
\* ---- variant: lines 142-143 left out, a used female is taken again
RECURSIVE FirstPassReusesFemale(_, _, _, _, _)
FirstPassReusesFemale(males, females, pp, i, acc) ==
    IF i > Len(males) THEN acc
    ELSE LET m == males[i]
             ok == {j \in 1..Len(females) : PairKey(m, females[j]) \notin pp}
         IN IF ok = {} THEN FirstPassReusesFemale(males, females, pp, i + 1, acc)
            ELSE LET j == CHOOSE k \in ok : \A l \in ok : k <= l
                     f == females[j]
                 IN FirstPassReusesFemale(males, females, pp, i + 1,
                        [pairs |-> Append(acc.pairs, <<m, f>>),
                         used_m |-> acc.used_m \cup {m},
                         used_f |-> acc.used_f \cup {f}])

\* lines 140-151: each male, in order, takes the first unused female whose
\* pair with him is not in past_partnerships
RECURSIVE FirstPass(_, _, _, _, _)
FirstPass(males, females, pp, i, acc) ==
    IF i > Len(males) THEN acc
    ELSE LET m == males[i]
             ok == {j \in 1..Len(females) :
                      /\ females[j] \notin acc.used_f
                      /\ PairKey(m, females[j]) \notin pp}
         IN IF ok = {} THEN FirstPass(males, females, pp, i + 1, acc)
            ELSE LET j == CHOOSE k \in ok : \A l \in ok : k <= l
                     f == females[j]
                 IN FirstPass(males, females, pp, i + 1,
                        [pairs |-> Append(acc.pairs, <<m, f>>),
                         used_m |-> acc.used_m \cup {m},
                         used_f |-> acc.used_f \cup {f}])

\* ---- variant: lines 153-164 left out, no second pass
SecondPassSkipped(remaining_m, remaining_f, i, acc) == acc

\* lines 157-164: each remaining male takes the first remaining female that
\* is still unused, whatever the history
RECURSIVE SecondPass(_, _, _, _)
SecondPass(remaining_m, remaining_f, i, acc) ==
    IF i > Len(remaining_m) THEN acc
    ELSE LET m == remaining_m[i]
             ok == {j \in 1..Len(remaining_f) : remaining_f[j] \notin acc.used_f}
         IN IF ok = {} THEN SecondPass(remaining_m, remaining_f, i + 1, acc)
            ELSE LET j == CHOOSE k \in ok : \A l \in ok : k <= l
                     f == remaining_f[j]
                 IN SecondPass(remaining_m, remaining_f, i + 1,
                        [pairs |-> Append(acc.pairs, <<m, f>>),
                         used_m |-> acc.used_m \cup {m},
                         used_f |-> acc.used_f \cup {f}])

\* ---- variant: line 181 reads leftover[best_idx] and pops nothing
LeftoverTurnKeepsPartner(leftover, pairs, pp) ==
    LET p1 == leftover[Len(leftover)]
        rest == SubSeq(leftover, 1, Len(leftover) - 1)
        ok == {k \in 1..Len(rest) : PairKey(p1, rest[k]) \notin pp}
        best_idx == IF ok = {} THEN 1
                    ELSE CHOOSE k \in ok : \A l \in ok : k <= l
        p2 == rest[best_idx]
    IN [leftover |-> rest, pairs |-> Append(pairs, <<p1, p2>>)]

\* lines 173-182, one turn of the loop: pop the last player, pair it with
\* the first of the rest that is no past partner (the first of the rest when
\* there is none), pop that one too
LeftoverTurn(leftover, pairs, pp) ==
    LET p1 == leftover[Len(leftover)]
        rest == SubSeq(leftover, 1, Len(leftover) - 1)
        ok == {k \in 1..Len(rest) : PairKey(p1, rest[k]) \notin pp}
        best_idx == IF ok = {} THEN 1
                    ELSE CHOOSE k \in ok : \A l \in ok : k <= l
        p2 == rest[best_idx]
    IN [leftover |-> RemoveAt(rest, best_idx), pairs |-> Append(pairs, <<p1, p2>>)]

\* lines 172-182: the loop, run until fewer than two players are left
RECURSIVE ThirdPass(_, _, _)
ThirdPass(leftover, pairs, pp) ==
    IF Len(leftover) < 2 THEN pairs
    ELSE LET after == LeftoverTurn(leftover, pairs, pp)
         IN ThirdPass(after.leftover, after.pairs, pp)

\* lines 132-164 for one outcome ms, fs of the two shuffles of lines 137-138:
\* the pairs of the first two passes and the leftover list of lines 167-169
MixedPasses(ms, fs, pp) ==
    LET a1 == FirstPass(ms, fs, pp, 1,
                        [pairs |-> <<>>, used_m |-> {}, used_f |-> {}])
        NotUsedM1(m) == m \notin a1.used_m
        NotUsedF1(f) == f \notin a1.used_f
        a2 == SecondPass(SelectSeq(ms, NotUsedM1), SelectSeq(fs, NotUsedF1), 1, a1)
        NotUsedM2(m) == m \notin a2.used_m
        NotUsedF2(f) == f \notin a2.used_f
    IN [pairs |-> a2.pairs,
        leftover |-> SelectSeq(ms, NotUsedM2) \o SelectSeq(fs, NotUsedF2)]

\* every list of pairs _form_pairs can return.  The shuffle of line 170
\* reaches every order of the leftover players, so the outcomes of the first
\* two passes are grouped by the set of players they leave over.
FormPairs(males, females, pp) ==
    LET after12 == {MixedPasses(ms, fs, pp) :
                       ms \in Shuffle(males), fs \in Shuffle(females)}
        grouped == {[pairs |-> r.pairs, pool |-> Range(r.leftover)] : r \in after12}
    IN UNION {{ThirdPass(lo, r.pairs, pp) : lo \in Orderings(r.pool)} : r \in grouped}

\* ----------------------------------------------------- _generate_candidate
\* ---- variants of lines 111-117 with a plausible slip
\* team2 read at the index of team1
MatchesSamePair(pairs, num_matches) ==
    [i \in 1..num_matches |->
        [court |-> i, team1 |-> pairs[2 * i - 1], team2 |-> pairs[2 * i - 1]]]

\* one match for every two pairs formed, whatever num_matches is
MatchesAllPairs(pairs, num_matches) ==
    [i \in 1..(Len(pairs) \div 2) |->
        [court |-> i, team1 |-> pairs[2 * i - 1], team2 |-> pairs[2 * i]]]

\* the two pairs read across: team1 the first players of both, team2 the
\* second players of both
MatchesAcross(pairs, num_matches) ==
    [i \in 1..num_matches |->
        [court |-> i,
         team1 |-> <<pairs[2 * i - 1][1], pairs[2 * i][1]>>,
         team2 |-> <<pairs[2 * i - 1][2], pairs[2 * i][2]>>]]

\* courts counted from 0: "court": i for "court": i + 1
MatchesZeroBased(pairs, num_matches) ==
    [i \in 1..num_matches |->
        [court |-> i - 1, team1 |-> pairs[2 * i - 1], team2 |-> pairs[2 * i]]]

\* lines 111-117
Matches(pairs, num_matches) ==
    [i \in 1..num_matches |->
        [court |-> i, team1 |-> pairs[2 * i - 1], team2 |-> pairs[2 * i]]]

\* ---- variant: line 106 with <= for <
GenerateCandidateStrict(ps, num_matches, pp, g) ==
    LET IsM(p) == g[p] = "M"
        IsF(p) == g[p] = "F"
        males == SelectSeq(ps, IsM)
        females == SelectSeq(ps, IsF)
    IN UNION {IF Len(pairs) <= num_matches * 2 THEN {None}
              ELSE {Some(Matches(sh, num_matches)) : sh \in Shuffle(pairs)} :
              pairs \in FormPairs(males, females, pp)}

\* every value _generate_candidate can return (None or a match list).
\* _form_pairs shuffles males and females itself (lines 137-138), so it
\* returns the same lists whatever order line 99 gave the pool: males and
\* females are taken from the pool as it stands.
GenerateCandidate(ps, num_matches, pp, g) ==
    LET IsM(p) == g[p] = "M"
        IsF(p) == g[p] = "F"
        males == SelectSeq(ps, IsM)
        females == SelectSeq(ps, IsF)
    IN UNION {IF Len(pairs) < num_matches * 2 THEN {None}
              ELSE {Some(Matches(sh, num_matches)) : sh \in Shuffle(pairs)} :
              pairs \in FormPairs(males, females, pp)}

\* ------------------------------------------------------- _score_candidate
\* ---- variant: the pair looked up as it stands, not as (min, max)
TeamPenaltyUnordered(team, pp) ==
    IF <<team[1], team[2]>> \in pp THEN PartnerPenalty ELSE 0

TeamPenalty(team, pp) ==
    IF PairKey(team[1], team[2]) \in pp THEN PartnerPenalty ELSE 0

TeamBonus(team, g) ==
    IF Cardinality({g[team[1]], g[team[2]]}) = 2 THEN MixedBonus ELSE 0

TeamWins(team, w) == Get(w, team[1], 0) + Get(w, team[2], 0)

\* ---- variant: line 230 without abs
ScoreMatchSigned(score, match, pp, po, w, g) ==
    LET t1 == match.team1
        t2 == match.team2
        s1 == (score - TeamPenalty(t1, pp)) - TeamPenalty(t2, pp)
        s2 == (((s1 - Get(po, PairKey(t1[1], t2[1]), 0) * OpponentPenalty)
                    - Get(po, PairKey(t1[1], t2[2]), 0) * OpponentPenalty)
                    - Get(po, PairKey(t1[2], t2[1]), 0) * OpponentPenalty)
                    - Get(po, PairKey(t1[2], t2[2]), 0) * OpponentPenalty
        s3 == (s2 + TeamBonus(t1, g)) + TeamBonus(t2, g)
        win_diff == TeamWins(t1, w) - TeamWins(t2, w)
    IN s3 - win_diff * BalancePenalty

\* lines 204-231 for one match, applied to the running score
ScoreMatch(score, match, pp, po, w, g) ==
    LET t1 == match.team1
        t2 == match.team2
        s1 == (score - TeamPenalty(t1, pp)) - TeamPenalty(t2, pp)
        s2 == (((s1 - Get(po, PairKey(t1[1], t2[1]), 0) * OpponentPenalty)
                    - Get(po, PairKey(t1[1], t2[2]), 0) * OpponentPenalty)
                    - Get(po, PairKey(t1[2], t2[1]), 0) * OpponentPenalty)
                    - Get(po, PairKey(t1[2], t2[2]), 0) * OpponentPenalty
        s3 == (s2 + TeamBonus(t1, g)) + TeamBonus(t2, g)
        win_diff == Abs(TeamWins(t1, w) - TeamWins(t2, w))
    IN s3 - win_diff * BalancePenalty

RECURSIVE ScoreFrom(_, _, _, _, _, _, _)
ScoreFrom(score, matches, k, pp, po, w, g) ==
    IF k > Len(matches) THEN score
    ELSE ScoreFrom(ScoreMatch(score, matches[k], pp, po, w, g),
                   matches, k + 1, pp, po, w, g)

ScoreCandidate(matches, pp, po, w, g) == ScoreFrom(0, matches, 1, pp, po, w, g)

\* ------------------------------------------------------ _generate_fallback
\* ---- variant: line 248 with <= for <
RECURSIVE FallbackFromStrict(_, _, _, _)
FallbackFromStrict(shuffled, num_matches, i, matches) ==
    IF i >= num_matches THEN matches
    ELSE LET start == i * 4
             group == SubSeq(shuffled, start + 1, Min(start + 4, Len(shuffled)))
         IN IF Len(group) <= 4 THEN matches
            ELSE FallbackFromStrict(shuffled, num_matches, i + 1,
                     Append(matches, [court |-> i + 1,
                                      team1 |-> SubSeq(group, 1, 2),
                                      team2 |-> SubSeq(group, 3, 4)]))

\* ---- variant: line 251 with group[1:3] for group[2:4]
RECURSIVE FallbackFromOverlap(_, _, _, _)
FallbackFromOverlap(shuffled, num_matches, i, matches) ==
    IF i >= num_matches THEN matches
    ELSE LET start == i * 4
             group == SubSeq(shuffled, start + 1, Min(start + 4, Len(shuffled)))
         IN IF Len(group) < 4 THEN matches
            ELSE FallbackFromOverlap(shuffled, num_matches, i + 1,
                     Append(matches, [court |-> i + 1,
                                      team1 |-> SubSeq(group, 1, 2),
                                      team2 |-> SubSeq(group, 2, 3)]))

\* lines 244-252 for one outcome of the shuffle of line 242
RECURSIVE FallbackFrom(_, _, _, _)
FallbackFrom(shuffled, num_matches, i, matches) ==
    IF i >= num_matches THEN matches
    ELSE LET start == i * 4
             group == SubSeq(shuffled, start + 1, Min(start + 4, Len(shuffled)))
         IN IF Len(group) < 4 THEN matches
            ELSE FallbackFrom(shuffled, num_matches, i + 1,
                     Append(matches, [court |-> i + 1,
                                      team1 |-> SubSeq(group, 1, 2),
                                      team2 |-> SubSeq(group, 3, 4)]))

GenerateFallback(ps, num_matches) ==
    {FallbackFrom(sh, num_matches, 0, <<>>) : sh \in Shuffle(ps)}

\* ------------------------------------------- generate_round, lines 45-49
\* ---- variant: the flag not looked at, the Selector always run
ResolvePlayingSelects(ps, mm, games, skip) == SelectPlayers(ps, mm * 4, games)

\* every list lines 46-49 can bind to `playing`
ResolvePlaying(ps, mm, games, skip) ==
    IF skip THEN {ps} ELSE SelectPlayers(ps, mm * 4, games)

\* the list object that `playing` is: a copy of the caller's list (lines 47
\* and 80) or the slice of line 87
PlayingObject(ps, mm, skip) ==
    IF skip \/ Len(ps) <= mm * 4 THEN ListCopy(CallerList) ELSE LocalList

\* lines 83-85 work on `shuffled`, a copy of the caller's list: the orders
\* they can leave in it
SortedShuffles(ps, games) ==
    LET key == [p \in Range(ps) |-> Get(games, p, 0)]
    IN {StableSort(sh, key) : sh \in Shuffle(ps)}

\* --------------------------------------------------- inputs of one call
PlayersPerMatch == 4

PlayerList(n) == [k \in 1..n |-> k]

\* the first m players tagged "M", the others "F"
GenderSplit(n, m) == [p \in 1..n |-> IF p <= m THEN "M" ELSE "F"]

AllPairs(n) == {pr \in (1..n) \X (1..n) : pr[1] < pr[2]}

\* the subsets of S with at most k elements
RECURSIVE UpTo(_, _)
UpTo(S, k) ==
    IF k = 0 THEN {{}}
    ELSE LET smaller == UpTo(S, k - 1)
         IN smaller \cup {T \cup {x} : T \in smaller, x \in S}

\* dicts with at most k keys taken from K and values from V
SparseDicts(K, V, k) == UNION {[T -> V] : T \in UpTo(K, k)}

\* partnership histories over n players: at most MaxHistory pairs have been
\* partners, or all but at most MaxHistory pairs have
Histories(n) ==
    LET few == UpTo(AllPairs(n), MaxHistory)
    IN few \cup {AllPairs(n) \ T : T \in few}

\* no pair or a single pair has been partners
AtMostOnePair(n) == {{}} \cup {{q} : q \in AllPairs(n)}

Call(n, g, courts, pp, po, games, w, attempts, skip) ==
    [players |-> PlayerList(n), gender |-> g, num_courts |-> courts,
     past_partnerships |-> pp, past_opponents |-> po, games_played |-> games,
     wins |-> w, num_attempts |-> attempts, skip_selection |-> skip]

\* any pool size and gender split, selection skipped, no history yet
PoolCalls ==
    UNION {{Call(n, GenderSplit(n, m), courts, {}, EmptyDict, EmptyDict, EmptyDict,
                 attempts, TRUE) :
               m \in 0..n, courts \in 0..MaxCourts, attempts \in 0..1} :
           n \in 0..MaxPlayers}

\* any pool size with selection: nobody has played yet, or one player has
SelectionCalls ==
    UNION {{Call(n, GenderSplit(n, n \div 2), courts, {}, EmptyDict, games,
                 EmptyDict, attempts, FALSE) :
               courts \in 0..MaxCourts,
               games \in SparseDicts(1..n, 1..MaxGames, 1),
               attempts \in 0..1} : n \in 0..MaxPlayers}

\* one match from four or five players, every gender split, with few or
\* with many past partnerships
PairingCalls ==
    UNION {{Call(n, GenderSplit(n, m), 1, pp, EmptyDict, EmptyDict, EmptyDict,
                 1, TRUE) :
               m \in 0..n, pp \in Histories(n)} :
           n \in {PlayersPerMatch, PlayersPerMatch + 1}}

\* one court, four players, at most one past partnership, and one entry in
\* either the opponent counts or the wins
ScoringCalls ==
    {Call(PlayersPerMatch, GenderSplit(PlayersPerMatch, m), 1, pp, sc[1], EmptyDict,
          sc[2], attempts, FALSE) :
        m \in 0..PlayersPerMatch,
        pp \in AtMostOnePair(PlayersPerMatch),
        sc \in ({<<po, EmptyDict>> :
                    po \in SparseDicts(AllPairs(PlayersPerMatch), {1, MaxFaced}, 1)}
                \cup {<<EmptyDict, w>> :
                    w \in SparseDicts(1..PlayersPerMatch, {MaxWins}, 1)}),
        attempts \in 0..MaxAttempts}

\* enough players for two matches, half of them tagged "M"; no, one or all
\* pairs have been partners
FullHouse == 2 * PlayersPerMatch

FullHouseCalls ==
    {Call(FullHouse, GenderSplit(FullHouse, FullHouse \div 2), courts, pp,
          EmptyDict, EmptyDict, EmptyDict, 1, TRUE) :
        courts \in 1..MaxCourts,
        pp \in AtMostOnePair(FullHouse) \cup {AllPairs(FullHouse)}}

\* two matches for four "M" and four "F" players who meet for the first
\* time, the Selector not skipped, one attempt
MixedEightCalls ==
    {Call(FullHouse, GenderSplit(FullHouse, FullHouse \div 2), 2, {}, EmptyDict,
          EmptyDict, EmptyDict, 1, FALSE)}

\* the first m players tagged "M", the last u tagged neither "M" nor "F"
GenderTags(n, m, u) ==
    [p \in 1..n |-> IF p <= m THEN "M" ELSE IF p > n - u THEN "X" ELSE "F"]

\* direct calls with players whose tag is neither "M" nor "F" (the store
\* admits no such tag, db.py line 36; the engine takes what it is given)
UntaggedCalls ==
    UNION {{Call(n, GenderTags(n, m, u), 1, {}, EmptyDict, EmptyDict, EmptyDict,
                 attempts, TRUE) :
               m \in 0..(n - 1), u \in 1..2, attempts \in 0..1} :
           n \in {PlayersPerMatch, PlayersPerMatch + 1}}

\* a locked pool of five for one court, selection skipped, one of the five
\* with games behind them
LockedCalls ==
    {Call(PlayersPerMatch + 1, GenderSplit(PlayersPerMatch + 1, 2), 1, {}, EmptyDict,
          games, EmptyDict, 1, TRUE) :
        games \in SparseDicts(1..(PlayersPerMatch + 1), 1..MaxGames, 1)}

Calls ==
    PoolCalls \cup SelectionCalls \cup PairingCalls \cup ScoringCalls
        \cup FullHouseCalls \cup MixedEightCalls \cup UntaggedCalls
        \cup LockedCalls

\* -------------------------------------------------------- generate_round
NoProbe == [fn |-> "none"]

\* the store and the session while the engine is called on its own
AppIdle ==
    /\ active = {}
    /\ rounds = <<>>
    /\ session_courts = 0
    /\ redrawn = None
    /\ drawn = None

\* the arguments of the call as they stand
Arguments ==
    [players |-> players, gender |-> gender, num_courts |-> num_courts,
     past_partnerships |-> past_partnerships, past_opponents |-> past_opponents,
     games_played |-> games_played, wins |-> wins]

InitWith(calls) ==
    /\ \E c \in calls :
        /\ players = c.players
        /\ gender = c.gender
        /\ num_courts = c.num_courts
        /\ past_partnerships = c.past_partnerships
        /\ past_opponents = c.past_opponents
        /\ games_played = c.games_played
        /\ wins = c.wins
        /\ num_attempts = c.num_attempts
        /\ skip_selection = c.skip_selection
    /\ pc = "call"
    /\ max_matches = 0
    /\ playing = <<>>
    /\ attempt = 0
    /\ best_matches = None
    /\ best_score = None
    /\ result = None
    /\ scores_seen = <<>>
    /\ best_at = 0
    /\ clean_seen = FALSE
    /\ playing_obj = LocalList
    /\ at_call = Arguments
    /\ fallback_used = FALSE
    /\ probe = NoProbe
    /\ AppIdle

Init == InitWith(Calls)

otherInputs == <<gender, num_courts, past_partnerships, past_opponents,
                 games_played, wins, num_attempts, skip_selection>>
inputVars == <<players, gender, num_courts, past_partnerships, past_opponents,
               games_played, wins, num_attempts, skip_selection>>
loopVars == <<attempt, best_matches, best_score, scores_seen, best_at, clean_seen>>
callVars == <<playing_obj, at_call, fallback_used>>

\* lines 38-39
TooFewPlayers ==
    /\ pc = "call"
    /\ Len(players) < 4
    /\ result' = Some(<<>>)
    /\ pc' = "done"
    /\ UNCHANGED <<inputVars, loopVars, callVars, max_matches, playing, probe,
                   appVars>>

\* lines 41-43
NoMatchPossible ==
    /\ pc = "call"
    /\ ~(Len(players) < 4)
    /\ Min(num_courts, Len(players) \div 4) = 0
    /\ max_matches' = 0
    /\ result' = Some(<<>>)
    /\ pc' = "done"
    /\ UNCHANGED <<inputVars, loopVars, callVars, playing, probe, appVars>>

\* lines 41-53
ChoosePlaying ==
    /\ pc = "call"
    /\ ~(Len(players) < 4)
    /\ LET mm == Min(num_courts, Len(players) \div 4)
       IN /\ mm # 0
          /\ max_matches' = mm
          /\ playing' \in ResolvePlaying(players, mm, games_played, skip_selection)
          /\ playing_obj' = PlayingObject(players, mm, skip_selection)
          /\ players' \in
                IF skip_selection \/ Len(players) <= mm * 4 THEN {players}
                ELSE InPlace(ListCopy(CallerList), players,
                             SortedShuffles(players, games_played))
    /\ pc' = "loop"
    /\ UNCHANGED <<otherInputs, loopVars, at_call, fallback_used, result, probe,
                   appVars>>

\* ---- variants of line 61: >= for >, and < for >
BetterOrEqual(score, best) == best = None \/ score >= best[1]

BetterInverted(score, best) == best = None \/ score < best[1]

\* score > best_score, where best_score starts as float("-inf")
Better(score, best) == best = None \/ score > best[1]

Repeated(team, pp) == PairKey(team[1], team[2]) \in pp

HasRepeatedTeam(matches, pp) ==
    \E k \in 1..Len(matches) :
        Repeated(matches[k].team1, pp) \/ Repeated(matches[k].team2, pp)

\* lines 55-63, one iteration of the loop
Attempt ==
    /\ pc = "loop"
    /\ attempt < num_attempts
    /\ attempt' = attempt + 1
    /\ players' \in InPlace(ListCopy(playing_obj), players, Shuffle(players))
    /\ playing' = IF playing_obj = CallerList THEN players' ELSE playing
    /\ \E candidate \in GenerateCandidate(playing, max_matches, past_partnerships, gender) :
        IF candidate = None
        THEN UNCHANGED <<best_matches, best_score, scores_seen, best_at, clean_seen>>
        ELSE LET score == ScoreCandidate(candidate[1], past_partnerships,
                                         past_opponents, wins, gender)
             IN /\ scores_seen' = Append(scores_seen, score)
                /\ clean_seen' = (clean_seen
                                    \/ ~HasRepeatedTeam(candidate[1], past_partnerships))
                /\ IF Better(score, best_score)
                   THEN /\ best_score' = Some(score)
                        /\ best_matches' = candidate
                        /\ best_at' = Len(scores_seen) + 1
                   ELSE UNCHANGED <<best_matches, best_score, best_at>>
    /\ UNCHANGED <<otherInputs, callVars, pc, max_matches, result, probe, appVars>>

\* lines 65-69
Return ==
    /\ pc = "loop"
    /\ attempt = num_attempts
    /\ IF best_matches = None
       THEN /\ \E fallback \in GenerateFallback(playing, max_matches) :
                /\ best_matches' = Some(fallback)
                /\ result' = Some(fallback)
            /\ players' \in InPlace(ListCopy(playing_obj), players, Shuffle(players))
            /\ playing' = IF playing_obj = CallerList THEN players' ELSE playing
            /\ fallback_used' = TRUE
       ELSE /\ result' = best_matches
            /\ UNCHANGED <<best_matches, players, playing, fallback_used>>
    /\ pc' = "done"
    /\ UNCHANGED <<otherInputs, playing_obj, at_call, max_matches, attempt,
                   best_score, scores_seen, best_at, clean_seen, probe, appVars>>

Next == TooFewPlayers \/ NoMatchPossible \/ ChoosePlaying \/ Attempt \/ Return

Spec == Init /\ [][Next]_vars

\* ------------------------------------------- direct calls of the helpers
\* the engine variables while a helper is called on its own
Idle ==
    /\ players = <<>>
    /\ gender = <<>>
    /\ num_courts = 0
    /\ past_partnerships = {}
    /\ past_opponents = EmptyDict
    /\ games_played = EmptyDict
    /\ wins = EmptyDict
    /\ num_attempts = 0
    /\ skip_selection = FALSE
    /\ pc = "idle"
    /\ max_matches = 0
    /\ playing = <<>>
    /\ attempt = 0
    /\ best_matches = None
    /\ best_score = None
    /\ result = None
    /\ scores_seen = <<>>
    /\ best_at = 0
    /\ clean_seen = FALSE
    /\ playing_obj = LocalList
    /\ at_call = None
    /\ fallback_used = FALSE

\* the list 1..n started at its k-th element
Rotation(n, k) == [i \in 1..n |-> ((i + k - 2) % n) + 1]

SelectArgs ==
    UNION {{[fn |-> "select", players |-> ps, needed |-> needed,
             games_played |-> games, out |-> None] :
               ps \in {Rotation(n, k) : k \in 1..Max(n, 1)},
               needed \in 0..(MaxPlayers + 1),
               games \in SparseDicts(1..n, 1..MaxGames, 2)} : n \in 0..MaxPlayers}

InitSelect == Idle /\ AppIdle /\ probe \in SelectArgs

\* _select_players(players, needed, games_played)
CallSelectPlayers ==
    /\ probe.fn = "select"
    /\ probe.out = None
    /\ \E out \in SelectPlayers(probe.players, probe.needed, probe.games_played) :
        probe' = [probe EXCEPT !.out = Some(out)]
    /\ UNCHANGED <<engineVars, appVars>>

SpecSelect == InitSelect /\ [][CallSelectPlayers]_vars

TeamsOf(order) ==
    [court |-> 1, team1 |-> <<order[1], order[2]>>, team2 |-> <<order[3], order[4]>>]

\* match lists over four players: none, one match, or the match 1 2 v 3 4
\* followed by a second match
ScoreCandidates ==
    LET one == {TeamsOf(o) : o \in Orderings(1..PlayersPerMatch)}
    IN {<<>>} \cup {<<m>> : m \in one}
       \cup {<<TeamsOf(PlayerList(PlayersPerMatch)), [m EXCEPT !.court = 2]>> : m \in one}

ScoreArgs ==
    {[fn |-> "score", matches |-> c, gender |-> GenderSplit(PlayersPerMatch, m),
      past_partnerships |-> pp, past_opponents |-> sc[1], wins |-> sc[2],
      out |-> None, out_more |-> None] :
        c \in ScoreCandidates,
        m \in 0..PlayersPerMatch,
        pp \in AtMostOnePair(PlayersPerMatch),
        sc \in ({<<po, EmptyDict>> :
                    po \in SparseDicts(AllPairs(PlayersPerMatch), 1..2, 1)}
                \cup {<<EmptyDict, w>> :
                    w \in SparseDicts(1..PlayersPerMatch, {MaxWins}, 2)})}

InitScore == Idle /\ AppIdle /\ probe \in ScoreArgs

\* _score_candidate(matches, past_partnerships, past_opponents, wins), and
\* the same call with one more pair in past_partnerships, for every pair
CallScoreCandidate ==
    /\ probe.fn = "score"
    /\ probe.out = None
    /\ probe' = [probe EXCEPT
          !.out = Some(ScoreCandidate(probe.matches, probe.past_partnerships,
                           probe.past_opponents, probe.wins, probe.gender)),
          !.out_more = Some([q \in AllPairs(PlayersPerMatch) |->
                           ScoreCandidate(probe.matches,
                               probe.past_partnerships \cup {q},
                               probe.past_opponents, probe.wins, probe.gender)])]
    /\ UNCHANGED <<engineVars, appVars>>

SpecScore == InitScore /\ [][CallScoreCandidate]_vars

\* pools for _generate_fallback: up to MaxPlayers players in any rotation for
\* up to MaxCourts matches, and a full house for two matches
FallbackArgs ==
    UNION {{[fn |-> "fallback", players |-> ps, num_matches |-> k,
             shuffled |-> None, out |-> None] :
               ps \in {Rotation(n, r) : r \in 1..Max(n, 1)},
               k \in 0..MaxCourts} : n \in 0..MaxPlayers}
    \cup {[fn |-> "fallback", players |-> PlayerList(FullHouse), num_matches |-> 2,
           shuffled |-> None, out |-> None]}

InitFallback == Idle /\ AppIdle /\ probe \in FallbackArgs

\* _generate_fallback(players, num_matches); `shuffled` is its local list
\* after line 242
CallGenerateFallback ==
    /\ probe.fn = "fallback"
    /\ probe.out = None
    /\ \E sh \in Shuffle(probe.players) :
        probe' = [probe EXCEPT
            !.shuffled = Some(sh),
            !.out = Some(FallbackFrom(sh, probe.num_matches, 0, <<>>))]
    /\ UNCHANGED <<engineVars, appVars>>

SpecFallback == InitFallback /\ [][CallGenerateFallback]_vars

\* males 1..m and females m+1..n
PairsCall(n, m, pp) ==
    [fn |-> "pairs", males |-> [k \in 1..m |-> k],
     females |-> [k \in 1..(n - m) |-> m + k], past_partnerships |-> pp,
     out |-> None]

\* up to MaxPlayers players with few or many past partnerships, and two
\* males with four females where no pair or all pairs but one were partners
PairsArgs ==
    UNION {{PairsCall(n, m, pp) : m \in 0..n, pp \in Histories(n)} :
           n \in 0..MaxPlayers}
    \cup {PairsCall(PlayersPerMatch + 2, 2, pp) :
            pp \in {{}} \cup {AllPairs(PlayersPerMatch + 2) \ {q} :
                                 q \in AllPairs(PlayersPerMatch + 2)}}

InitPairs == Idle /\ AppIdle /\ probe \in PairsArgs

\* _form_pairs(males, females, past_partnerships)
CallFormPairs ==
    /\ probe.fn = "pairs"
    /\ probe.out = None
    /\ \E out \in FormPairs(probe.males, probe.females, probe.past_partnerships) :
        probe' = [probe EXCEPT !.out = Some(out)]
    /\ UNCHANGED <<engineVars, appVars>>

SpecPairs == InitPairs /\ [][CallFormPairs]_vars

\* _form_pairs pass by pass: the pairs and the used sets as they stand after
\* each pass, with the number of pairs the first pass (first) and the first
\* two passes (mixed) have formed
PassesCall(a) ==
    [fn |-> "passes", males |-> a.males, females |-> a.females,
     past_partnerships |-> a.past_partnerships, stage |-> "start",
     pairs |-> <<>>, used_m |-> {}, used_f |-> {}, first |-> 0, mixed |-> 0,
     leftover |-> <<>>]

\* no pair, one pair, all pairs but one or all pairs have been partners
OnePairApart(n) == AtMostOnePair(n) \cup {AllPairs(n) \ T : T \in AtMostOnePair(n)}

\* fewer than MaxPlayers players, and two males with four females
PassesArgs ==
    UNION {{PassesCall(PairsCall(n, m, pp)) : m \in 0..n, pp \in OnePairApart(n)} :
           n \in 0..(MaxPlayers - 1)}
    \cup {PassesCall(PairsCall(PlayersPerMatch + 2, 2, pp)) :
            pp \in OnePairApart(PlayersPerMatch + 2)}

InitPasses == Idle /\ AppIdle /\ probe \in PassesArgs

\* lines 132-151: the two shuffles, in place, and the first pass
RunFirstPass ==
    /\ probe.fn = "passes"
    /\ probe.stage = "start"
    /\ \E ms \in Shuffle(probe.males) : \E fs \in Shuffle(probe.females) :
        LET a1 == FirstPass(ms, fs, probe.past_partnerships, 1,
                            [pairs |-> <<>>, used_m |-> {}, used_f |-> {}])
        IN probe' = [probe EXCEPT !.males = ms, !.females = fs,
                                  !.pairs = a1.pairs, !.used_m = a1.used_m,
                                  !.used_f = a1.used_f,
                                  !.first = Len(a1.pairs), !.stage = "first"]
    /\ UNCHANGED <<engineVars, appVars>>

\* lines 153-169: the second pass and the leftover list
RunSecondPass ==
    /\ probe.fn = "passes"
    /\ probe.stage = "first"
    /\ LET NotUsedM1(m) == m \notin probe.used_m
           NotUsedF1(f) == f \notin probe.used_f
           a2 == SecondPass(SelectSeq(probe.males, NotUsedM1),
                            SelectSeq(probe.females, NotUsedF1), 1,
                            [pairs |-> probe.pairs, used_m |-> probe.used_m,
                             used_f |-> probe.used_f])
           NotUsedM2(m) == m \notin a2.used_m
           NotUsedF2(f) == f \notin a2.used_f
       IN probe' = [probe EXCEPT !.pairs = a2.pairs, !.used_m = a2.used_m,
                                 !.used_f = a2.used_f,
                                 !.mixed = Len(a2.pairs),
                                 !.leftover = SelectSeq(probe.males, NotUsedM2)
                                                \o SelectSeq(probe.females, NotUsedF2),
                                 !.stage = "second"]
    /\ UNCHANGED <<engineVars, appVars>>

\* lines 170-184: the shuffle of the leftover list, the third pass, return
RunThirdPass ==
    /\ probe.fn = "passes"
    /\ probe.stage = "second"
    /\ \E lo \in Shuffle(probe.leftover) :
        probe' = [probe EXCEPT !.pairs = ThirdPass(lo, probe.pairs,
                                                   probe.past_partnerships),
                               !.stage = "third"]
    /\ UNCHANGED <<engineVars, appVars>>

NextPasses ==
    \/ RunFirstPass
    \/ RunSecondPass
    \/ RunThirdPass

SpecPasses == InitPasses /\ [][NextPasses]_vars

\* the third pass of _form_pairs on its own: any leftover list of up to
\* MaxPlayers players, no pairs yet; no, one or all pairs were partners
LeftoverArgs ==
    UNION {{[fn |-> "leftover", leftover |-> lo, pairs |-> <<>>,
             past_partnerships |-> pp] :
               lo \in Orderings(1..n),
               pp \in AtMostOnePair(n) \cup {AllPairs(n)}} :
           n \in 0..MaxPlayers}

InitLeftover == Idle /\ AppIdle /\ probe \in LeftoverArgs

\* lines 172-182, one turn of the while loop
LeftoverLoop ==
    /\ probe.fn = "leftover"
    /\ Len(probe.leftover) >= 2
    /\ LET after == LeftoverTurn(probe.leftover, probe.pairs, probe.past_partnerships)
       IN probe' = [probe EXCEPT !.leftover = after.leftover, !.pairs = after.pairs]
    /\ UNCHANGED <<engineVars, appVars>>

\* calls kept for the termination check: every path of generate_round, the
\* attempt budget up to MaxAttempts, pools that end in the fallback
TerminationCalls == PoolCalls \cup ScoringCalls \cup UntaggedCalls

\* generate_round and the leftover loop, step by step; the loop is
\* sequential code, so a turn that can be taken is taken
SpecTerminates ==
    /\ InitWith(TerminationCalls) \/ InitLeftover
    /\ [][Next \/ LeftoverLoop]_vars
    /\ WF_vars(LeftoverLoop)

\* ------------------------------------------- generate_round as one call
\* num_attempts when the caller passes none (the application passes none)
DefaultAttempts == 200

\* every list generate_round can return.  The round returned is the first
\* best-scoring candidate of the sample, and a sample can hold any one valid
\* candidate alone, so with an attempt to spend every valid candidate can be
\* returned, whatever the scores; the fallback can be returned when there is
\* no attempt or when every attempt can come out None.
GenerateRound(ps, g, courts, pp, po, games, w, attempts, skip) ==
    IF Len(ps) < 4 THEN {<<>>}
    ELSE LET mm == Min(courts, Len(ps) \div 4)
         IN IF mm = 0 THEN {<<>>}
            ELSE UNION {
                LET candidates == GenerateCandidate(pl, mm, pp, g)
                IN (IF attempts >= 1 THEN {c[1] : c \in candidates \ {None}} ELSE {})
                   \cup (IF attempts <= 0 \/ None \in candidates
                         THEN GenerateFallback(pl, mm) ELSE {}) :
                pl \in ResolvePlaying(ps, mm, games, skip)}

\* ------------------------------------------------------ the store (db.py)
\* The players table holds Roster players, ids 1..Roster, none deleted, whose
\* names sort in the order of their ids; the first two are tagged "M".
Roster == MaxPlayers

RosterGender == GenderSplit(Roster, 2)

\* the elements of S in ascending order
RECURSIVE Ascending(_)
Ascending(S) ==
    IF S = {} THEN <<>>
    ELSE LET x == CHOOSE y \in S : \A z \in S : y <= z
         IN <<x>> \o Ascending(S \ {x})

\* db.get_active_players
GetActivePlayers(act) == Ascending(act)

Last(rs) == rs[Len(rs)]

Front(rs) == SubSeq(rs, 1, Len(rs) - 1)

\* the four players of a stored match, and the players of a stored round
PlayersOfStored(m) == Range(m.team1) \cup Range(m.team2)

PlayersInStored(round) == UNION {PlayersOfStored(round[k]) : k \in 1..Len(round)}

\* the rows of the matches table: round and position in the round
MatchRows(rs) == UNION {{<<i, k>> : k \in 1..Len(rs[i])} : i \in 1..Len(rs)}

\* db.get_all_past_partnerships: all matches, with or without a result
GetAllPastPartnerships(rs) ==
    UNION {{PairKey(rs[ix[1]][ix[2]].team1[1], rs[ix[1]][ix[2]].team1[2]),
            PairKey(rs[ix[1]][ix[2]].team2[1], rs[ix[1]][ix[2]].team2[2])} :
           ix \in MatchRows(rs)}

\* db.get_all_past_opponents: the four cross pairs of every match, counted
GetAllPastOpponents(rs) ==
    LET rows == MatchRows(rs) \X {1, 2} \X {1, 2}
        Key(r) == PairKey(rs[r[1][1]][r[1][2]].team1[r[2]],
                          rs[r[1][1]][r[1][2]].team2[r[3]])
    IN [q \in {Key(r) : r \in rows} |-> Cardinality({r \in rows : Key(r) = q})]

\* db.get_games_played_counts: matches a player is in, finished or not
GetGamesPlayedCounts(rs) ==
    [p \in 1..Roster |->
        Cardinality({ix \in MatchRows(rs) : p \in PlayersOfStored(rs[ix[1]][ix[2]])})]

\* db.get_wins_counts
GetWinsCounts(rs) ==
    [p \in 1..Roster |->
        Cardinality({ix \in MatchRows(rs) :
            LET m == rs[ix[1]][ix[2]]
            IN \/ m.winner = Some(1) /\ p \in Range(m.team1)
               \/ m.winner = Some(2) /\ p \in Range(m.team2)})]

\* db.round_is_complete
RoundIsComplete(round) ==
    Cardinality({k \in 1..Len(round) : round[k].winner = None}) = 0

\* ---- variant: the undo and redraw buttons never disabled
RoundHasAnyResultsIgnored(round) == FALSE

\* db.round_has_any_results
RoundHasAnyResults(round) ==
    Cardinality({k \in 1..Len(round) : round[k].winner # None}) > 0

\* db.create_round and db.create_match for every match of the engine's list
StoredRound(matches) ==
    [k \in 1..Len(matches) |->
        [court |-> matches[k].court, team1 |-> matches[k].team1,
         team2 |-> matches[k].team2, winner |-> None]]

\* ------------------------------------------------ round controls (app.py)
\* ---- variant: lines 292-296 left out, the draw button never disabled for
\* an unfinished round
CanDrawAnyTime(act, rs) == ~(Cardinality(act) < 4)

\* can_draw, lines 280-296
CanDraw(act, rs) ==
    /\ ~(Cardinality(act) < 4)
    /\ ~(rs # <<>> /\ ~RoundIsComplete(Last(rs)))

\* ---- variant: delete_round removes nothing
DeleteRoundSkipped(rs) == rs

\* db.delete_round on the current round: the round's row goes, and its
\* matches with it (ON DELETE CASCADE, with foreign_keys switched on for
\* every connection)
DeleteRound(rs) == Front(rs)

\* what draw_new_round reads of the history, lines 338-341
HistorySnapshot(rs) ==
    [past_partnerships |-> GetAllPastPartnerships(rs),
     past_opponents |-> GetAllPastOpponents(rs),
     games_played |-> GetGamesPlayedCounts(rs),
     wins_counts |-> GetWinsCounts(rs)]

\* draw_new_round(locked_player_ids), lines 337-372: the rounds table after
\* it; locked is None or Some(set of ids)
DrawNewRound(act, courts, rs, locked) ==
    LET active_players == GetActivePlayers(act)
        history == HistorySnapshot(rs)
        IsLocked(p) == p \in locked[1]
        players_for_engine ==
            IF locked # None /\ locked[1] # {}
            THEN SelectSeq(active_players, IsLocked)
            ELSE active_players
    IN {IF matches = <<>> THEN rs ELSE Append(rs, StoredRound(matches)) :
        matches \in GenerateRound(players_for_engine, RosterGender, courts,
                        history.past_partnerships, history.past_opponents,
                        history.games_played, history.wins_counts,
                        DefaultAttempts, locked # None)}

\* a session on a fresh tournament: every player active, no round stored; the
\* court count is the default or what the operator has set it to, and any
\* count of one or more gives a roster of fewer than eight players one match
InitApp ==
    /\ Idle
    /\ probe = NoProbe
    /\ active = 1..Roster
    /\ rounds = <<>>
    /\ session_courts \in 1..MaxCourts
    /\ redrawn = None
    /\ drawn = None

\* the "Trekk ny runde" button, lines 298-301
PressDraw ==
    /\ CanDraw(active, rounds)
    /\ Len(rounds) < MaxRounds
    /\ rounds' \in DrawNewRound(active, session_courts, rounds, None)
    /\ redrawn' = None
    /\ drawn' = IF rounds' # rounds
                THEN Some([before |-> rounds, undone |-> FALSE])
                ELSE None
    /\ UNCHANGED <<engineVars, probe, active, session_courts>>

\* the "Angre runde" button, lines 309-314
PressUndo ==
    /\ rounds # <<>>
    /\ ~RoundHasAnyResults(Last(rounds))
    /\ rounds' = DeleteRound(rounds)
    /\ redrawn' = None
    /\ drawn' = IF drawn # None /\ ~drawn[1].undone
                THEN Some([before |-> drawn[1].before, undone |-> TRUE])
                ELSE None
    /\ UNCHANGED <<engineVars, probe, active, session_courts>>

\* the "Trekk på nytt" button, lines 317-327
PressRedraw ==
    /\ rounds # <<>>
    /\ ~RoundHasAnyResults(Last(rounds))
    /\ LET playing_ids == PlayersInStored(Last(rounds))
           remaining == DeleteRound(rounds)
       IN /\ rounds' \in DrawNewRound(active, session_courts, remaining,
                                       Some(playing_ids))
          /\ redrawn' = Some([players |-> playing_ids, rounds |-> Len(rounds),
                              history |-> HistorySnapshot(remaining)])
    /\ drawn' = None
    /\ UNCHANGED <<engineVars, probe, active, session_courts>>

\* a "Lag 1" / "Lag 2" button of a court of the current round, lines 449-467
PressResult ==
    /\ rounds # <<>>
    /\ \E k \in 1..Len(Last(rounds)) : \E winner \in {1, 2} :
        /\ Last(rounds)[k].winner = None
        /\ rounds' = [rounds EXCEPT ![Len(rounds)][k].winner = Some(winner)]
    /\ redrawn' = None
    /\ drawn' = None
    /\ UNCHANGED <<engineVars, probe, active, session_courts>>

\* the "Endre resultat" button of a court of the current round, lines 470-474
PressChangeResult ==
    /\ rounds # <<>>
    /\ \E k \in 1..Len(Last(rounds)) :
        /\ Last(rounds)[k].winner # None
        /\ rounds' = [rounds EXCEPT ![Len(rounds)][k].winner = None]
    /\ redrawn' = None
    /\ drawn' = None
    /\ UNCHANGED <<engineVars, probe, active, session_courts>>

\* a player's checkbox in the sidebar, lines 191-197
TogglePlayer ==
    /\ \E p \in 1..Roster :
        active' = IF p \in active THEN active \ {p} ELSE active \cup {p}
    /\ redrawn' = None
    /\ drawn' = None
    /\ UNCHANGED <<engineVars, probe, rounds, session_courts>>

\* the "Antall baner" input, lines 110-113 (min_value 1)
SetNumCourts ==
    /\ \E c \in 1..MaxCourts :
        /\ c # session_courts
        /\ session_courts' = c
    /\ redrawn' = None
    /\ drawn' = None
    /\ UNCHANGED <<engineVars, probe, active, rounds>>

\* "Ny turnering" or "Rediger spillerlister" confirmed, lines 83-94:
\* everything deleted, a player list of the same size entered
NewTournament ==
    /\ active' = 1..Roster
    /\ rounds' = <<>>
    /\ redrawn' = None
    /\ drawn' = None
    /\ UNCHANGED <<engineVars, probe, session_courts>>

NextApp ==
    \/ PressDraw
    \/ PressUndo
    \/ PressRedraw
    \/ PressResult
    \/ PressChangeResult
    \/ TogglePlayer
    \/ SetNumCourts
    \/ NewTournament

SpecApp == InitApp /\ [][NextApp]_vars

\* ------------------------------------------------------------ properties
Returned == pc = "done" /\ result # None

PlayersOf(match) ==
    {match.team1[k] : k \in 1..Len(match.team1)}
        \cup {match.team2[k] : k \in 1..Len(match.team2)}

PlayersIn(matches) == UNION {PlayersOf(matches[k]) : k \in 1..Len(matches)}

\* C1: every match of a returned round has two teams of two, four pairwise
\* distinct players in all, and no player is in two matches of the round.
C1_DistinctPlayers ==
    Returned =>
        LET r == result[1]
        IN /\ \A k \in 1..Len(r) :
                /\ Len(r[k].team1) = 2
                /\ Len(r[k].team2) = 2
                /\ Cardinality(PlayersOf(r[k])) = 4
           /\ \A k \in 1..Len(r) : \A l \in 1..Len(r) :
                k # l => PlayersOf(r[k]) \cap PlayersOf(r[l]) = {}

\* a round of two matches drawn from a pool with a partnership history
C1_Witness ==
    /\ Returned
    /\ Len(result[1]) = 2
    /\ past_partnerships # {}

\* C2: a non-empty returned round has exactly
\* min(num_courts, floor(len(playing) / 4)) matches.
C2_MatchCount ==
    (Returned /\ result[1] # <<>>) =>
        Len(result[1]) = Min(num_courts, Len(playing) \div 4)

\* a round for fewer courts than the pool could fill
C2_Witness ==
    /\ Returned
    /\ result[1] # <<>>
    /\ num_courts < Len(playing) \div 4

\* C3: with at least one court, the call returns, and it returns the empty
\* list exactly when fewer than 4 players were supplied.
C3_EmptyIffTooFew ==
    (pc = "done" /\ num_courts >= 1) =>
        /\ result # None
        /\ (result[1] = <<>>) <=> (Len(players) < 4)

\* a round returned although the attempt budget was 0
C3_Witness ==
    /\ Returned
    /\ num_courts >= 1
    /\ Len(players) >= 4
    /\ num_attempts = 0
    /\ result[1] # <<>>

\* C4: when selection runs and there are more players than places, exactly
\* 4 * max_matches players are in the round, and nobody who sits out has
\* played fewer games than somebody who plays.
C4_FewestGamesPlay ==
    (Returned /\ ~skip_selection /\ max_matches > 0
              /\ Len(players) > 4 * max_matches) =>
        LET in == PlayersIn(result[1])
            out == Range(players) \ in
        IN /\ Cardinality(in) = 4 * max_matches
           /\ in \subseteq Range(players)
           /\ \A s \in out : \A q \in in :
                Get(games_played, s, 0) >= Get(games_played, q, 0)

\* a player with games played sits out while players without any play
C4_Witness ==
    /\ Returned
    /\ ~skip_selection
    /\ Len(players) > 4 * max_matches
    /\ result[1] # <<>>
    /\ \E s \in Range(players) \ PlayersIn(result[1]) :
            Get(games_played, s, 0) > 0

\* C5: _select_players returns exactly `needed` distinct players of the input
\* when the input has more than `needed`, and the input list itself otherwise.
C5_SelectContract ==
    (probe.fn = "select" /\ probe.out # None) =>
        LET out == probe.out[1]
        IN IF Len(probe.players) > probe.needed
           THEN /\ Len(out) = probe.needed
                /\ Cardinality(Range(out)) = probe.needed
                /\ Range(out) \subseteq Range(probe.players)
           ELSE out = probe.players

\* a selection that leaves somebody out, from a list that does not start at 1
C5_Witness ==
    /\ probe.fn = "select"
    /\ probe.out # None
    /\ probe.needed > 0
    /\ Len(probe.players) > probe.needed
    /\ probe.players[1] # 1

SeqMax(s) == CHOOSE x \in Range(s) : \A y \in Range(s) : y <= x

\* C6: once a valid candidate was generated, the kept candidate scores at
\* least as much as every valid candidate generated so far, it is the first
\* generated that reached that score, and it is what the call returns.
C6_FirstBestKept ==
    (pc \in {"loop", "done"} /\ scores_seen # <<>>) =>
        LET top == SeqMax(scores_seen)
        IN /\ best_score = Some(top)
           /\ best_at \in 1..Len(scores_seen)
           /\ scores_seen[best_at] = top
           /\ \A k \in 1..(best_at - 1) : scores_seen[k] < top
           /\ best_matches # None
           /\ ScoreCandidate(best_matches[1], past_partnerships, past_opponents,
                             wins, gender) = top
           /\ pc = "done" => result = best_matches

\* two valid candidates with the same score, the first one kept and returned
C6_Witness ==
    /\ Returned
    /\ Len(scores_seen) = 2
    /\ scores_seen[1] = scores_seen[2]
    /\ best_at = 1

\* the contribution of one match to the score, as the scoring rules state it
Contribution(match, pp, po, w, g) ==
    LET t1 == match.team1
        t2 == match.team2
        repeated == {t \in {t1, t2} : PairKey(t[1], t[2]) \in pp}
        mixed == {t \in {t1, t2} : g[t[1]] # g[t[2]]}
        faced(a, b) == IF PairKey(a, b) \in DOMAIN po THEN po[PairKey(a, b)] ELSE 0
        won(p) == IF p \in DOMAIN w THEN w[p] ELSE 0
        d == (won(t1[1]) + won(t1[2])) - (won(t2[1]) + won(t2[2]))
    IN (15 * Cardinality(mixed))
         - (100 * Cardinality(repeated))
         - (10 * (faced(t1[1], t2[1]) + faced(t1[1], t2[2])
                    + faced(t1[2], t2[1]) + faced(t1[2], t2[2])))
         - (2 * (IF d < 0 THEN 0 - d ELSE d))

RECURSIVE SumContributions(_, _, _, _, _)
SumContributions(matches, pp, po, w, g) ==
    IF matches = <<>> THEN 0
    ELSE Contribution(Head(matches), pp, po, w, g)
            + SumContributions(Tail(matches), pp, po, w, g)

\* C7: the score of a candidate is the sum over its matches of -100 per team
\* in the partnership history, -10 per earlier meeting of each of the four
\* cross-team pairs, +15 per mixed team, and -2 times the absolute difference
\* of the teams' summed wins.
C7_ScoreFormula ==
    (probe.fn = "score" /\ probe.out # None) =>
        probe.out[1] = SumContributions(probe.matches, probe.past_partnerships,
                           probe.past_opponents, probe.wins, probe.gender)

\* two matches scored, with a repeated team and unequal wins
C7_Witness ==
    /\ probe.fn = "score"
    /\ probe.out # None
    /\ Len(probe.matches) = 2
    /\ HasRepeatedTeam(probe.matches, probe.past_partnerships)
    /\ Cardinality(DOMAIN probe.wins) = 2
    /\ probe.out[1] < 0

TeamsWithKey(matches, q) ==
    Cardinality({<<k, side>> \in (1..Len(matches)) \X {1, 2} :
        LET t == IF side = 1 THEN matches[k].team1 ELSE matches[k].team2
        IN PairKey(t[1], t[2]) = q})

\* C8: adding a pair to the partnership history never raises the score of a
\* candidate: it lowers it by exactly 100 for every team that thereby becomes
\* a repeated partnership.
C8_MonotoneInHistory ==
    (probe.fn = "score" /\ probe.out # None) =>
        \A q \in DOMAIN probe.out_more[1] :
            /\ probe.out_more[1][q] <= probe.out[1]
            /\ probe.out_more[1][q] =
                 probe.out[1] - 100 * (IF q \in probe.past_partnerships THEN 0
                                       ELSE TeamsWithKey(probe.matches, q))

\* a pair that is a team of the candidate and not yet in the history
C8_Witness ==
    /\ probe.fn = "score"
    /\ probe.out # None
    /\ \E q \in DOMAIN probe.out_more[1] :
        /\ q \notin probe.past_partnerships
        /\ TeamsWithKey(probe.matches, q) > 0
        /\ probe.out_more[1][q] < probe.out[1]

\* C9: whenever a valid candidate without a repeated partnership was
\* generated during the call, the returned round has no repeated partnership.
C9_PenaltyDominant ==
    (Returned /\ clean_seen) => ~HasRepeatedTeam(result[1], past_partnerships)

FourPlayersOnePastPair ==
    /\ Len(players) = 4
    /\ num_courts = 1
    /\ Cardinality(past_partnerships) = 1
    /\ \A k \in DOMAIN past_opponents : past_opponents[k] = 0
    /\ \A p \in DOMAIN wins : wins[p] = 0

\* C10: four players, one court, exactly one past partnership, no opponent
\* history and no wins: if some generated candidate does not team up the past
\* partners, the returned match does not team them up.
C10_ScenarioAvoidsPair ==
    (Returned /\ FourPlayersOnePastPair /\ clean_seen) =>
        ~HasRepeatedTeam(result[1], past_partnerships)

\* a candidate that teams up the past partners was generated as well
C10_Witness ==
    /\ Returned
    /\ FourPlayersOnePastPair
    /\ clean_seen
    /\ \E k \in 1..Len(scores_seen) : scores_seen[k] < 0

TaggedAs(tag) == {p \in Range(players) : gender[p] = tag}

EightMixedScenario ==
    /\ Len(players) = 8
    /\ Cardinality(TaggedAs("M")) = 4
    /\ Cardinality(TaggedAs("F")) = 4
    /\ past_partnerships = {}
    /\ DOMAIN past_opponents = {}
    /\ num_courts = 2
    /\ ~skip_selection
    /\ num_attempts >= 1

Mixed(team) == gender[team[1]] # gender[team[2]]

\* C11: 8 players (4 "M", 4 "F"), no partnership and no opponent history,
\* 2 courts, selection not skipped, at least 1 attempt: the returned round
\* has exactly 2 matches, all 8 players play, and all 4 teams are mixed.
C11_EightMixed ==
    (Returned /\ EightMixedScenario) =>
        LET r == result[1]
        IN /\ Len(r) = 2
           /\ PlayersIn(r) = Range(players)
           /\ \A k \in 1..Len(r) : Mixed(r[k].team1) /\ Mixed(r[k].team2)

\* the scenario's round, returned as the best of the scored candidates
C11_Witness ==
    /\ Returned
    /\ EightMixedScenario
    /\ scores_seen # <<>>
    /\ result = best_matches

TaggedMF(ps) == \A p \in Range(ps) : gender[p] \in {"M", "F"}

\* C12: with every playing player tagged "M" or "F", each attempt yields a
\* valid candidate whatever the partnership history, so with num_attempts >= 1
\* the fallback is not run; and once the loop is over the fallback has run
\* exactly when no attempt yielded a valid candidate.
C12_FallbackOnlyWithoutCandidate ==
    /\ (pc \in {"loop", "done"} /\ max_matches > 0 /\ TaggedMF(playing)) =>
            Len(scores_seen) = attempt
    /\ (pc = "done" /\ TaggedMF(playing) /\ num_attempts >= 1) => ~fallback_used
    /\ (pc = "done" /\ max_matches > 0) => (fallback_used <=> scores_seen = <<>>)

\* a round for players who have all been partners of each other before,
\* returned from a candidate
C12_Witness ==
    /\ Returned
    /\ TaggedMF(playing)
    /\ Len(players) > PlayersPerMatch
    /\ past_partnerships = AllPairs(Len(players))
    /\ attempt >= 1
    /\ ~fallback_used

\* C14: the k-th match of every returned round has court number k.
C14_CourtsInOrder ==
    Returned => \A k \in 1..Len(result[1]) : result[1][k].court = k

\* a round of two matches on courts 1 and 2
C14_Witness ==
    /\ Returned
    /\ Len(result[1]) = 2
    /\ result[1][1].court = 1
    /\ result[1][2].court = 2

\* C15: throughout a call and after it, the player list (contents and
\* order), the partnership history, the opponent counts, the games played
\* and the wins are what the caller passed in.
C15_InputsUntouched ==
    pc \in {"call", "loop", "done"} => Arguments = at_call

\* a call that selected (shuffle, sort, slice) and then built a candidate
\* (shuffles, pops) has returned
C15_Witness ==
    /\ Returned
    /\ ~skip_selection
    /\ max_matches > 0
    /\ Len(players) > 4 * max_matches
    /\ scores_seen # <<>>
    /\ DOMAIN games_played # {}

\* C17: with skip_selection the playing pool is the supplied list as it
\* stands, every player of the returned round is in that list, and a list
\* of exactly 4 * max_matches players plays in full.
C17_SkipBypassesSelector ==
    /\ (pc \in {"loop", "done"} /\ skip_selection /\ max_matches > 0) =>
            playing = players
    /\ (Returned /\ skip_selection) => PlayersIn(result[1]) \subseteq Range(players)
    /\ (Returned /\ skip_selection /\ max_matches > 0
            /\ Len(players) = 4 * max_matches) =>
            PlayersIn(result[1]) = Range(players)

\* with selection skipped, a player who has played sits in the round while
\* one who has not sits out
C17_Witness ==
    /\ Returned
    /\ skip_selection
    /\ \E s \in Range(players) \ PlayersIn(result[1]) :
        \E q \in PlayersIn(result[1]) :
            Get(games_played, s, 0) < Get(games_played, q, 0)

\* C13: _generate_fallback returns min(num_matches, floor(len(players) / 4))
\* matches, so num_matches of them for 4 * num_matches players or more;
\* match i has court i and holds positions 4i-3..4i of one permutation of the
\* pool, the first two as team1 and the last two as team2.
C13_FallbackSlices ==
    (probe.fn = "fallback" /\ probe.out # None) =>
        LET sh == probe.shuffled[1]
            out == probe.out[1]
            n == Len(probe.players)
        IN /\ Len(sh) = n
           /\ Range(sh) = Range(probe.players)
           /\ Len(out) = Min(probe.num_matches, n \div 4)
           /\ (n >= 4 * probe.num_matches) => Len(out) = probe.num_matches
           /\ \A i \in 1..Len(out) :
                out[i] = [court |-> i,
                          team1 |-> <<sh[4 * i - 3], sh[4 * i - 2]>>,
                          team2 |-> <<sh[4 * i - 1], sh[4 * i]>>]

\* two matches cut from a permutation that moved the pool around
C13_Witness ==
    /\ probe.fn = "fallback"
    /\ probe.out # None
    /\ Len(probe.out[1]) = 2
    /\ probe.shuffled[1] # probe.players

\* C19: in every list of pairs _form_pairs returns, each pair has two
\* different players and no player is in two pairs.
C19_PairsDisjoint ==
    (probe.fn = "pairs" /\ probe.out # None) =>
        LET out == probe.out[1]
        IN /\ \A k \in 1..Len(out) : out[k][1] # out[k][2]
           /\ \A k \in 1..Len(out) : \A l \in 1..Len(out) :
                k # l => {out[k][1], out[k][2]} \cap {out[l][1], out[l][2]} = {}
           /\ \A k \in 1..Len(out) :
                {out[k][1], out[k][2]} \subseteq Range(probe.males) \cup Range(probe.females)

\* pairs of all three passes in one list: a mixed pair new to each other, a
\* mixed pair of past partners, and a same-gender pair
C19_Witness ==
    /\ probe.fn = "pairs"
    /\ probe.out # None
    /\ LET out == probe.out[1]
           IsMixed(pr) == pr[1] \in Range(probe.males) /\ pr[2] \in Range(probe.females)
           IsPast(pr) == PairKey(pr[1], pr[2]) \in probe.past_partnerships
       IN /\ \E k \in 1..Len(out) : IsMixed(out[k]) /\ ~IsPast(out[k])
          /\ \E k \in 1..Len(out) : IsMixed(out[k]) /\ IsPast(out[k])
          /\ \E k \in 1..Len(out) : ~IsMixed(out[k])

Finished ==
    \/ pc = "done"
    \/ probe.fn = "leftover" /\ Len(probe.leftover) < 2

\* the steps a call of generate_round, or the leftover loop, has left at most
StepsLeft ==
    IF probe.fn = "leftover" THEN Len(probe.leftover) \div 2
    ELSE IF pc = "call" THEN num_attempts + 2
    ELSE IF pc = "loop" THEN (num_attempts - attempt) + 1
    ELSE 0

\* a step can be taken: the guard of some action holds and the step has an
\* outcome
HasStep ==
    \/ pc = "call"
    \/ /\ pc = "loop"
       /\ attempt < num_attempts
       /\ GenerateCandidate(playing, max_matches, past_partnerships, gender) # {}
    \/ /\ pc = "loop"
       /\ attempt = num_attempts
       /\ best_matches = None => GenerateFallback(playing, max_matches) # {}
    \/ probe.fn = "leftover" /\ Len(probe.leftover) >= 2

\* C16: a call of generate_round ends after at most num_attempts candidate
\* generations and then at most one fallback, which is its last step: every
\* step lowers StepsLeft, which is never negative, and a call that has not
\* returned has a step to take.  The leftover loop of _form_pairs ends, each
\* turn taking exactly two players out of the leftover list.
C16_Terminates ==
    /\ [](StepsLeft >= 0)
    /\ [][StepsLeft' < StepsLeft]_vars
    /\ [](~Finished => HasStep)
    /\ [](attempt <= num_attempts)
    /\ [](fallback_used => (pc = "done" /\ attempt = num_attempts))
    /\ [][probe.fn = "leftover" =>
            Len(probe'.leftover) = Len(probe.leftover) - 2]_vars
    /\ <>(probe.fn = "leftover" => Len(probe.leftover) < 2)

\* a call that spent its attempts without a valid candidate and ended with
\* the fallback
C16_Witness ==
    /\ pc = "done"
    /\ attempt >= 1
    /\ attempt = num_attempts
    /\ fallback_used

\* a step that stores a round: the rounds table grows, or a redraw puts a
\* round in the place of the one it deleted
CreatesRound == Len(rounds') > Len(rounds) \/ (redrawn' # None /\ Len(rounds') = Len(rounds))

\* the rounds table as draw_new_round finds it
FoundByDraw == IF redrawn' # None THEN Front(rounds) ELSE rounds

\* C18: over any sequence of operator actions of a session, only the latest
\* stored round can have a match without a winner, and a round is created
\* only when the store holds no round or every match of the latest round it
\* holds has a result.
C18_OneUndecidedRound ==
    /\ [](\A i \in 1..Len(rounds) - 1 : RoundIsComplete(rounds[i]))
    /\ [][CreatesRound =>
            (FoundByDraw = <<>> \/ RoundIsComplete(Last(FoundByDraw)))]_vars

\* C18 witness: a second round is stored, undecided, after a finished first
\* round, and the player list and the court count are not the initial ones
C18_Witness ==
    /\ Len(rounds) = 2
    /\ RoundIsComplete(rounds[1])
    /\ ~RoundIsComplete(rounds[2])
    /\ active # 1..Roster

\* C20: after a redraw of a round without results a current round exists in
\* the place of the replaced one, and the players of its matches are the
\* players of the matches of the round it replaced, whatever was done to the
\* player list or the court count since the original draw.
C20_RedrawSamePlayers ==
    redrawn # None =>
        /\ Len(rounds) = redrawn[1].rounds
        /\ PlayersInStored(Last(rounds)) = redrawn[1].players

\* the rounds that came before the round the last redraw replaced
BeforeReplaced == SubSeq(rounds, 1, redrawn[1].rounds - 1)

\* C21: a draw followed by its undo leaves the rounds and matches, and so the
\* partnership history, the opponent counts, the games-played counts, the
\* wins counts and the round count, as they were before the draw; and the
\* history a redraw reads is that of the rounds before the replaced round,
\* without the pairings of the round it discarded.
C21_UndoRestoresStore ==
    /\ (drawn # None /\ drawn[1].undone) =>
            /\ rounds = drawn[1].before
            /\ Len(rounds) = Len(drawn[1].before)
            /\ HistorySnapshot(rounds) = HistorySnapshot(drawn[1].before)
    /\ redrawn # None => redrawn[1].history = HistorySnapshot(BeforeReplaced)

\* C21 witness: the second round was drawn and undone, and the first round,
\* with its result, is the history again
C21_Witness ==
    /\ drawn # None
    /\ drawn[1].undone
    /\ Len(rounds) = 1
    /\ RoundIsComplete(rounds[1])

\* some match of the round has a recorded winner
HasWinner(round) == \E k \in 1..Len(round) : round[k].winner # None

\* the same courts and teams, whatever the results
SameMatches(r1, r2) ==
    /\ Len(r1) = Len(r2)
    /\ \A k \in 1..Len(r1) :
        /\ r1[k].court = r2[k].court
        /\ r1[k].team1 = r2[k].team1
        /\ r1[k].team2 = r2[k].team2

\* the step deletes the i-th stored round: it is gone, or other matches are in
\* its place, or a redraw has put a new round in its place
Deletes(i) ==
    \/ i > Len(rounds')
    \/ (i <= Len(rounds') /\ ~SameMatches(rounds[i], rounds'[i]))
    \/ (redrawn' # None /\ redrawn'[1].rounds = i)

\* C22: in any sequence of operator actions, a step other than a tournament
\* reset deletes no round that has a recorded winner and no round but the
\* latest.
C22_DeleteOnlyLatestWithoutResults ==
    [][NewTournament \/
        \A i \in 1..Len(rounds) :
            Deletes(i) => (i = Len(rounds) /\ ~HasWinner(rounds[i]))]_vars

\* C22 witness: the second round has been redrawn and the first round, with
\* its results, is still stored
C22_Witness ==
    /\ redrawn # None
    /\ redrawn[1].rounds = 2
    /\ Len(rounds) = 2
    /\ HasWinner(rounds[1])

\* a male of the call first and a female of the call second
MalePlusFemale(pr) == pr[1] \in Range(probe.males) /\ pr[2] \in Range(probe.females)

\* two males of the call or two females of the call
SameGender(pr) ==
    \/ {pr[1], pr[2]} \subseteq Range(probe.males)
    \/ {pr[1], pr[2]} \subseteq Range(probe.females)

\* C23: _form_pairs forms exactly min(|males|, |females|) mixed pairs: every
\* pair of the first pass is a mixed pair absent from the partnership
\* history, after the second pass the mixed pairs number the smaller of the
\* two groups and one group is fully paired, and every pair the third pass
\* adds is a same-gender pair, so the returned list has exactly that many
\* mixed pairs.
C23_MixedPairsExact ==
    probe.fn = "passes" =>
        LET pairs == probe.pairs
            smaller == Min(Len(probe.males), Len(probe.females))
        IN /\ probe.stage # "start" =>
                \A k \in 1..probe.first :
                    /\ MalePlusFemale(pairs[k])
                    /\ PairKey(pairs[k][1], pairs[k][2]) \notin probe.past_partnerships
           /\ probe.stage \in {"second", "third"} =>
                /\ probe.mixed = smaller
                /\ \A k \in 1..probe.mixed : MalePlusFemale(pairs[k])
                /\ \/ Range(probe.males) \subseteq probe.used_m
                   \/ Range(probe.females) \subseteq probe.used_f
           /\ probe.stage = "third" =>
                /\ \A k \in (probe.mixed + 1)..Len(pairs) : SameGender(pairs[k])
                /\ Cardinality({k \in 1..Len(pairs) : ~SameGender(pairs[k])}) = smaller

\* C23 witness: _form_pairs has returned pairs of all three passes, with more
\* females than males and a male whose first pass found no new partner
C23_Witness ==
    /\ probe.fn = "passes"
    /\ probe.stage = "third"
    /\ probe.first >= 1
    /\ probe.mixed > probe.first
    /\ Len(probe.pairs) > probe.mixed

====
